---- MODULE Spec2Model ----
(***************************************************************************)
(* Model of the screening pipeline and the concurrent batch orchestrator   *)
(* of langtool-trading: Analysis (analysis.py), Analysis2560               *)
(* (analysis2560.py) and AnalysisFlow (analysisflow.py).                   *)
(*                                                                         *)
(* Prices, averages, factor scores and confidences are integers in         *)
(* hundredths (0.1 is 10, -0.5 is -50).  A Python dict is a TLA+ record    *)
(* whose DOMAIN is the set of keys present; d.get(k, v) is Get(d, k, v).   *)
(* A string that the code searches is a sequence of characters.            *)
(***************************************************************************)
EXTENDS Integers, Sequences, FiniteSets, TLC

\* ------------------------------------------------------------------------
\* Bounds of the model
\* ------------------------------------------------------------------------
NumSymbols == 2

MaxWorkers == 2

Symbols == 1..NumSymbols

\* ------------------------------------------------------------------------
\* Program constants
\* ------------------------------------------------------------------------
MinBars == 5

MinBars2560 == 60

FactorFloor == -50

DefaultConfidence == 10

QuotePrice == 1234

Variants == {"Analysis", "Analysis2560", "AnalysisFlow"}

BatchVariants == {"Analysis", "Analysis2560"}

\* Recommendation texts, one element per character (pinyin names the
\* character): mai3 ru4 = buy, guan1 wang4 = hold/watch, mai4 chu1 = sell.
Buy == <<"mai3", "ru4">>

Watch == <<"guan1", "wang4">>

Sell == <<"mai4", "chu1">>

StrongBuy == <<"qiang2", "lie4", "mai3", "ru4">>

BuyTag == <<"mai3", "ru4">>

\* ------------------------------------------------------------------------
\* Dictionaries and strings
\* ------------------------------------------------------------------------
Get(d, k, default) == IF k \in DOMAIN d THEN d[k] ELSE default

EmptyDict == [k \in {} |-> 0]

\* needle in haystack, Python's substring test on str
Contains(haystack, needle) ==
    \E i \in 0..(Len(haystack) - Len(needle)) :
        \A j \in 1..Len(needle) : haystack[i + j] = needle[j]

Range(seq) == {seq[i] : i \in 1..Len(seq)}

\* ------------------------------------------------------------------------
\* External data: what the history of a symbol looks like at its latest
\* bar.  n is the number of bars returned by get_stock_history; the other
\* fields are the latest row of the rolling frame, present only when the
\* window fits (pandas leaves NaN otherwise).
\* ------------------------------------------------------------------------
HistTooShort == [n |-> 3]

HistMidBear ==
    [n |-> 30, close |-> 850, ma5 |-> 900, ma20 |-> 1000, ma25 |-> 1020,
     mean_all |-> 1100, macd_hist |-> -20]

HistLongBear ==
    [n |-> 70, close |-> 850, ma5 |-> 900, ma20 |-> 1000, ma25 |-> 1020,
     ma60 |-> 1100, mean_all |-> 1120, macd_hist |-> -20,
     ma25_change |-> -3, ma60_change |-> -5]

HistLongBull ==
    [n |-> 70, close |-> 1200, ma5 |-> 1150, ma20 |-> 1100, ma25 |-> 1080,
     ma60 |-> 1000, mean_all |-> 990, macd_hist |-> 20,
     ma25_change |-> 4, ma60_change |-> 2]

Histories == {HistTooShort, HistMidBear, HistLongBear, HistLongBull}

Factors == {-100, 10}

NoHistory == [n |-> 0]

\* ------------------------------------------------------------------------
\* Indicator snapshots (the dict built from the latest row)
\* ------------------------------------------------------------------------
\* The flag is_above_<k>: close > average when the average is defined, None
\* otherwise.  A key holding None is modelled as an absent key: .get() on it
\* is falsy either way.
AboveFlag(h, k, flag) ==
    IF k \in DOMAIN h THEN [f \in {flag} |-> h.close > h[k]] ELSE EmptyDict

\* Analysis._calculate_indicators, the fields the gate and the prompt read
CalcIndicatorsShort(h) ==
    IF h.n < MinBars THEN EmptyDict
    ELSE [ma5 |-> Get(h, "ma5", 0),
          ma20 |-> Get(h, "ma20", 0),
          ma60 |-> Get(h, "ma60", 0),
          macd_hist |-> Get(h, "macd_hist", 0)]
         @@ AboveFlag(h, "ma5", "is_above_ma5")

\* AnalysisFlow._calculate_indicators: ma60 falls back to the mean of all bars
CalcIndicatorsFlow(h) ==
    IF h.n < MinBars THEN EmptyDict
    ELSE [ma5 |-> Get(h, "ma5", 0),
          ma20 |-> Get(h, "ma20", 0),
          ma60 |-> IF h.n >= 60 THEN Get(h, "ma60", 0) ELSE Get(h, "mean_all", 0),
          macd_hist |-> 2 * Get(h, "macd_hist", 0),
          current_price |-> h.close]

TrendLabel(h, k) ==
    IF k \in DOMAIN h /\ h[k] > 0 THEN "up"
    ELSE IF k \in DOMAIN h /\ h[k] < 0 THEN "down"
    ELSE "flat"

\* Analysis2560._calculate_indicators
CalcIndicators2560(h) ==
    IF h.n < MinBars2560 THEN EmptyDict
    ELSE [ma25 |-> Get(h, "ma25", 0),
          ma60 |-> Get(h, "ma60", 0),
          ma25_trend |-> TrendLabel(h, "ma25_change"),
          ma60_trend |-> TrendLabel(h, "ma60_change"),
          current_price |-> h.close]
         @@ AboveFlag(h, "ma60", "is_above_ma60")

CalcIndicators(v, h) ==
    CASE v = "Analysis" -> CalcIndicatorsShort(h)
      [] v = "Analysis2560" -> CalcIndicators2560(h)
      [] OTHER -> CalcIndicatorsFlow(h)

\* ------------------------------------------------------------------------
\* Screening gates
\* ------------------------------------------------------------------------
\* IsPromisingShort without the test of the factor score
IsPromisingShortNoFloor(ind, factor) ==
    IF DOMAIN ind = {} THEN FALSE
    ELSE IF /\ Get(ind, "ma5", 0) < Get(ind, "ma20", 0)
            /\ Get(ind, "ma20", 0) < Get(ind, "ma60", 0)
            /\ ~Get(ind, "is_above_ma5", FALSE)
            /\ Get(ind, "macd_hist", 0) < 0
         THEN FALSE
    ELSE TRUE

\* Analysis._is_promising
IsPromisingShort(ind, factor) ==
    IF DOMAIN ind = {} THEN FALSE
    ELSE IF factor < FactorFloor THEN FALSE
    ELSE IF /\ Get(ind, "ma5", 0) < Get(ind, "ma20", 0)
            /\ Get(ind, "ma20", 0) < Get(ind, "ma60", 0)
            /\ ~Get(ind, "is_above_ma5", FALSE)
            /\ Get(ind, "macd_hist", 0) < 0
         THEN FALSE
    ELSE TRUE

\* AnalysisFlow._is_promising
IsPromisingFlow(ind, factor) ==
    IF DOMAIN ind = {} THEN FALSE
    ELSE IF factor < FactorFloor THEN FALSE
    ELSE IF /\ Get(ind, "ma5", 0) < Get(ind, "ma20", 0)
            /\ Get(ind, "ma20", 0) < Get(ind, "ma60", 0)
            /\ Get(ind, "current_price", 0) < Get(ind, "ma5", 0)
            /\ Get(ind, "macd_hist", 0) < 0
         THEN FALSE
    ELSE TRUE

\* IsPromising2560 with the price rule taken as "at or below 90% of MA60"
IsPromising2560AtMost(ind) ==
    IF DOMAIN ind = {} THEN FALSE
    ELSE IF Get(ind, "ma60_trend", "none") = "down" THEN FALSE
    ELSE IF /\ Get(ind, "ma60", 0) > 0
            /\ 10 * Get(ind, "current_price", 0) <= 9 * Get(ind, "ma60", 0)
         THEN FALSE
    ELSE TRUE

\* IsPromising2560 without its MA60-trend rule
IsPromising2560NoTrendRule(ind) ==
    IF DOMAIN ind = {} THEN FALSE
    ELSE IF /\ Get(ind, "ma60", 0) > 0
            /\ 10 * Get(ind, "current_price", 0) < 9 * Get(ind, "ma60", 0)
         THEN FALSE
    ELSE IF /\ Get(ind, "ma25_trend", "none") = "down"
            /\ Get(ind, "ma60_trend", "none") = "down"
         THEN FALSE
    ELSE TRUE

\* Analysis2560._is_promising; price < ma60 * 0.9 is 10 * price < 9 * ma60
IsPromising2560(ind) ==
    IF DOMAIN ind = {} THEN FALSE
    ELSE IF Get(ind, "ma60_trend", "none") = "down" THEN FALSE
    ELSE IF /\ Get(ind, "ma60", 0) > 0
            /\ 10 * Get(ind, "current_price", 0) < 9 * Get(ind, "ma60", 0)
         THEN FALSE
    ELSE IF /\ Get(ind, "ma25_trend", "none") = "down"
            /\ Get(ind, "ma60_trend", "none") = "down"
         THEN FALSE
    ELSE TRUE

IsPromising(v, ind, factor) ==
    CASE v = "Analysis" -> IsPromisingShort(ind, factor)
      [] v = "Analysis2560" -> IsPromising2560(ind)
      [] OTHER -> IsPromisingFlow(ind, factor)

\* ------------------------------------------------------------------------
\* Records
\* ------------------------------------------------------------------------
\* current_data.get('current_price', 0) if current_data else 0
CurrentPrice(q) == IF q = "present" THEN QuotePrice ELSE 0

\* DefaultRecord with a buy recommendation
DefaultRecordBuy(v, code, q, factor) ==
    [stock_code |-> code, recommendation |-> Buy,
     confidence |-> DefaultConfidence]

\* the fixed record of a symbol the gate rejected
DefaultRecord(v, code, q, factor) ==
    CASE v = "Analysis" ->
            [stock_code |-> code, current_price |-> CurrentPrice(q),
             alpha158 |-> factor,
             recommendation |-> Watch, confidence |-> DefaultConfidence]
      [] v = "Analysis2560" ->
            [stock_code |-> code,
             recommendation |-> Watch, confidence |-> DefaultConfidence]
      [] OTHER ->
            [stock_code |-> code, current_price |-> CurrentPrice(q),
             alpha158 |-> factor,
             recommendation |-> Watch, confidence |-> DefaultConfidence]

\* What the analysis collaborator may answer for a symbol: the JSON object
\* asked for by the prompt, with the code and the price echoed and the
\* recommendation and the confidence as the collaborator pleases.
LLMResponses(code, q) ==
    { [stock_code |-> code, current_price |-> CurrentPrice(q)] @@ extra :
        extra \in { [recommendation |-> Buy, confidence |-> 90],
                    [recommendation |-> StrongBuy, confidence |-> DefaultConfidence],
                    [recommendation |-> Watch, confidence |-> 90],
                    [recommendation |-> Sell],
                    [confidence |-> 0] } }

\* dict merge in which the keys of base win (analysis.py: ordered_result)
MergeKeep(base, resp) ==
    [k \in DOMAIN base \cup DOMAIN resp |->
        IF k \in DOMAIN base THEN base[k] ELSE resp[k]]

\* the record assembled from the collaborator's answer
AssembleRecord(v, code, q, factor, resp) ==
    CASE v = "Analysis" ->
            MergeKeep([stock_code |-> code, current_price |-> CurrentPrice(q),
                       alpha158 |-> factor], resp)
      [] v = "Analysis2560" -> resp
      [] OTHER -> [alpha158 |-> factor] @@ resp

\* trader_node's record when the answer cannot be parsed
FlowErrorRecord(code) == [stock_code |-> code, error |-> "parse"]

\* ------------------------------------------------------------------------
\* The spreadsheet files
\* ------------------------------------------------------------------------
NoFile == [exists |-> FALSE, rows |-> <<>>]

\* column_mapping: the columns a sheet keeps (of the fields modelled here)
Columns(v) ==
    IF v = "Analysis2560"
    THEN {"stock_code", "current_price", "recommendation", "confidence"}
    ELSE {"stock_code", "current_price", "alpha158", "recommendation", "confidence"}

\* one sheet row of a record: the mapped columns only; a column the record
\* lacks is an empty cell (an absent key here)
Row(v, r) == [k \in DOMAIN r \cap Columns(v) |-> r[k]]

Rows(v, data) == [i \in 1..Len(data) |-> Row(v, data[i])]

\* SaveToExcel that appends to any file that exists, whatever append says
SaveToExcelAppendsAlways(v, file, data, append, appendOk, writeOk) ==
    IF file.exists
    THEN IF appendOk
         THEN [file |-> [exists |-> TRUE, rows |-> file.rows \o Rows(v, data)],
               raised |-> FALSE, how |-> "append"]
         ELSE IF writeOk
              THEN [file |-> [exists |-> TRUE, rows |-> Rows(v, data)],
                    raised |-> FALSE, how |-> "overwrite"]
              ELSE [file |-> file, raised |-> TRUE, how |-> "none"]
    ELSE IF writeOk
         THEN [file |-> [exists |-> TRUE, rows |-> Rows(v, data)],
               raised |-> FALSE, how |-> "overwrite"]
         ELSE [file |-> file, raised |-> TRUE, how |-> "none"]

\* _save_to_excel(data, filename, append).  appendOk and writeOk say whether
\* the append to the open workbook, and the overwriting to_excel, go through;
\* a write that raises leaves the file as it was.  The result is the file and
\* whether the call raised.
SaveToExcel(v, file, data, append, appendOk, writeOk) ==
    IF append /\ file.exists
    THEN IF appendOk
         THEN [file |-> [exists |-> TRUE, rows |-> file.rows \o Rows(v, data)],
               raised |-> FALSE, how |-> "append"]
         ELSE IF writeOk
              THEN [file |-> [exists |-> TRUE, rows |-> Rows(v, data)],
                    raised |-> FALSE, how |-> "overwrite"]
              ELSE [file |-> file, raised |-> TRUE, how |-> "none"]
    ELSE IF writeOk
         THEN [file |-> [exists |-> TRUE, rows |-> Rows(v, data)],
               raised |-> FALSE, how |-> "overwrite"]
         ELSE [file |-> file, raised |-> TRUE, how |-> "none"]

\* ------------------------------------------------------------------------
\* Ranker and selector
\* ------------------------------------------------------------------------
\* x.get('confidence', 0)
Confidence(r) == Get(r, "confidence", 0)

\* InsertAt that lets r pass the records of equal confidence
InsertAtBeforeTies(sorted, r) ==
    IF \E i \in 1..Len(sorted) : Confidence(sorted[i]) <= Confidence(r)
    THEN CHOOSE i \in 1..Len(sorted) :
            /\ Confidence(sorted[i]) <= Confidence(r)
            /\ \A j \in 1..(i - 1) : Confidence(sorted[j]) > Confidence(r)
    ELSE Len(sorted) + 1

\* position at which r enters a list sorted by confidence descending so that
\* it follows every record of equal confidence
InsertAt(sorted, r) ==
    IF \E i \in 1..Len(sorted) : Confidence(sorted[i]) < Confidence(r)
    THEN CHOOSE i \in 1..Len(sorted) :
            /\ Confidence(sorted[i]) < Confidence(r)
            /\ \A j \in 1..(i - 1) : Confidence(sorted[j]) >= Confidence(r)
    ELSE Len(sorted) + 1

InsertStable(sorted, r) ==
    LET at == InsertAt(sorted, r)
    IN SubSeq(sorted, 1, at - 1) \o <<r>> \o SubSeq(sorted, at, Len(sorted))

RECURSIVE SortPrefix(_, _)
SortPrefix(list, n) ==
    IF n = 0 THEN <<>> ELSE InsertStable(SortPrefix(list, n - 1), list[n])

\* valid_results.sort(key=lambda x: x.get('confidence', 0), reverse=True)
SortByConfidence(list) == SortPrefix(list, Len(list))

\* IsBuy that compares the whole text instead of searching it
IsBuyExact(r) ==
    /\ "recommendation" \in DOMAIN r
    /\ r.recommendation = Buy

\* r.get('recommendation') and buy tag in str(r.get('recommendation'))
IsBuy(r) ==
    /\ "recommendation" \in DOMAIN r
    /\ Len(r.recommendation) > 0
    /\ Contains(r.recommendation, BuyTag)

RECURSIVE FilterBuy(_)
FilterBuy(list) ==
    IF list = <<>> THEN <<>>
    ELSE IF IsBuy(Head(list)) THEN <<Head(list)>> \o FilterBuy(Tail(list))
    ELSE FilterBuy(Tail(list))

\* ------------------------------------------------------------------------
\* State
\* ------------------------------------------------------------------------
VARIABLES
    variant,          \* which pipeline class runs
    mode,             \* "batch" (batch_analysis) or "single" (one symbol, saving)
    pc,               \* per symbol: where its pipeline call stands
    history_data,     \* per symbol: what get_stock_history returned
    current_data,     \* per symbol: "unset", "present" or "absent" (None)
    indicators,       \* per symbol: the snapshot
    factor_158,       \* per symbol: the factor score
    verdict,          \* per symbol: "none", "accept", "reject" (the gate's answer)
    llmCalls,         \* per symbol: number of calls of the analysis collaborator
    future,           \* per symbol: outcome of the call
    raisedAt,         \* per symbol: the step that failed, "none" if none did
    opc,              \* where batch_analysis stands
    cur,              \* the symbol whose future the loop is handling
    is_first,         \* the loop's is_first
    consumed,         \* futures already yielded by as_completed
    valid_results,    \* the results buffer
    buy_stocks,       \* the selector's list
    files,            \* the spreadsheets
    writing,          \* <<thread, file>> pairs inside a write at this moment
    writeLog,         \* every write that went through, in order
    persistReturned   \* symbols whose incremental persist call returned

workerVars == <<pc, history_data, current_data, indicators, factor_158,
                verdict, llmCalls, future, raisedAt>>

orchVars == <<opc, cur, is_first, consumed, valid_results, buy_stocks,
              persistReturned>>

vars == <<variant, mode, pc, history_data, current_data, indicators,
          factor_158, verdict, llmCalls, future, raisedAt, opc, cur, is_first,
          consumed, valid_results, buy_stocks, files, writing, writeLog,
          persistReturned>>

\* the thread that runs batch_analysis
Orchestrator == 0

Pending == [kind |-> "pending", rec |-> EmptyDict]

RunningStages == {"info", "history", "quote", "indicators", "factor", "gate",
                  "prompt", "llm", "save", "saving"}

\* the steps of a pipeline call that lie outside its try block
UnguardedStages == {"info", "history", "quote", "indicators", "factor", "gate"}

Finished == {"returned", "raised"}

\* SaveToFile with the flag left at its default in the submitted calls
SaveToFileDefault(m) == TRUE

\* save_to_file of the call: batch_analysis submits with save_to_file=False,
\* the command line entry points call with the default True
SaveToFile(m) == m = "single"

\* whether the branch of the pipeline writes its record to a file of its own
BranchSaves(v, m, branch) ==
    CASE v = "Analysis" -> SaveToFile(m)
      [] v = "Analysis2560" -> SaveToFile(m) /\ branch = "llm"
      [] OTHER -> TRUE

Init ==
    /\ variant \in Variants
    /\ mode \in {"batch", "single"}
    /\ mode = "batch" => variant \in BatchVariants
    /\ pc = [s \in Symbols |->
                IF mode = "batch" THEN "unsubmitted"
                ELSE IF s = 1 THEN "queued" ELSE "unused"]
    /\ history_data = [s \in Symbols |-> NoHistory]
    /\ current_data = [s \in Symbols |-> "unset"]
    /\ indicators = [s \in Symbols |-> EmptyDict]
    /\ factor_158 = [s \in Symbols |-> 0]
    /\ verdict = [s \in Symbols |-> "none"]
    /\ llmCalls = [s \in Symbols |-> 0]
    /\ future = [s \in Symbols |-> Pending]
    /\ raisedAt = [s \in Symbols |-> "none"]
    /\ opc = IF mode = "batch" THEN "start" ELSE "none"
    /\ cur = 0
    /\ is_first = FALSE
    /\ consumed = {}
    /\ valid_results = <<>>
    /\ buy_stocks = <<>>
    /\ files = [batch |-> NoFile, selected |-> NoFile, single |-> NoFile]
    /\ writing = {}
    /\ writeLog = <<>>
    /\ persistReturned = {}

\* ------------------------------------------------------------------------
\* The per-symbol pipeline: Analysis.analysis_stock, Analysis2560.run,
\* AnalysisFlow.run
\* ------------------------------------------------------------------------
\* the call returns value (a record, or None)
Returns(s, kind, rec) ==
    /\ pc' = [pc EXCEPT ![s] = "returned"]
    /\ future' = [future EXCEPT ![s] = [kind |-> kind, rec |-> rec]]

\* Raises with the pool putting the failed call back in its queue
RaisesAndRequeues(s, step) ==
    /\ pc' = [pc EXCEPT ![s] = "queued"]
    /\ future' = [future EXCEPT ![s] = [kind |-> "raised", rec |-> EmptyDict]]
    /\ raisedAt' = [raisedAt EXCEPT ![s] = step]

\* the exception leaves the call and is kept by its future
Raises(s, step) ==
    /\ pc' = [pc EXCEPT ![s] = "raised"]
    /\ future' = [future EXCEPT ![s] = [kind |-> "raised", rec |-> EmptyDict]]
    /\ raisedAt' = [raisedAt EXCEPT ![s] = step]

\* the locals of the call: gone when it ends, as they were otherwise
LocalsAfter(s) ==
    /\ history_data' = IF pc'[s] \in Finished
                       THEN [history_data EXCEPT ![s] = NoHistory]
                       ELSE history_data
    /\ indicators' = IF pc'[s] \in Finished
                     THEN [indicators EXCEPT ![s] = EmptyDict]
                     ELSE indicators
    /\ factor_158' = IF pc'[s] \in Finished
                     THEN [factor_158 EXCEPT ![s] = 0]
                     ELSE factor_158

\* the call hands rec to its own file before returning it
GoesToSave(s, rec) ==
    /\ pc' = [pc EXCEPT ![s] = "save"]
    /\ future' = [future EXCEPT ![s] = [kind |-> "pending", rec |-> rec]]

\* a pool thread picks the submitted call up
WorkerStart(s) ==
    /\ pc[s] = "queued"
    /\ Cardinality({t \in Symbols : pc[t] \in RunningStages}) < MaxWorkers
    /\ pc' = [pc EXCEPT ![s] = "info"]
    /\ UNCHANGED <<variant, mode, history_data, current_data, indicators,
                   factor_158, verdict, llmCalls, future, raisedAt, files,
                   writing, writeLog>>
    /\ UNCHANGED orchVars

\* get_stock_info: a batch takes its codes from stock_info, so only a code
\* typed on the command line can be unknown
FetchInfo(s) ==
    /\ pc[s] = "info"
    /\ \/ /\ pc' = [pc EXCEPT ![s] = "history"]
          /\ UNCHANGED future
       \/ /\ mode = "single"
          /\ Returns(s, "none", EmptyDict)
    /\ UNCHANGED <<variant, mode, history_data, current_data, indicators,
                   factor_158, verdict, llmCalls, raisedAt, files, writing,
                   writeLog>>
    /\ UNCHANGED orchVars

FetchHistory(s) ==
    /\ pc[s] = "history"
    /\ \E h \in Histories : history_data' = [history_data EXCEPT ![s] = h]
    /\ pc' = [pc EXCEPT ![s] = "quote"]
    /\ UNCHANGED <<variant, mode, current_data, indicators, factor_158,
                   verdict, llmCalls, future, raisedAt, files, writing,
                   writeLog>>
    /\ UNCHANGED orchVars

\* get_real_time_data: the quote, or None
FetchQuote(s) ==
    /\ pc[s] = "quote"
    /\ \E q \in {"present", "absent"} :
          current_data' = [current_data EXCEPT ![s] = q]
    /\ pc' = [pc EXCEPT ![s] = "indicators"]
    /\ UNCHANGED <<variant, mode, history_data, indicators, factor_158,
                   verdict, llmCalls, future, raisedAt, files, writing,
                   writeLog>>
    /\ UNCHANGED orchVars

\* _calculate_indicators; Analysis2560.run gives up on an empty snapshot
ComputeIndicators(s) ==
    /\ pc[s] = "indicators"
    /\ LET ind == CalcIndicators(variant, history_data[s])
       IN IF variant = "Analysis2560"
          THEN IF DOMAIN ind = {}
               THEN /\ Returns(s, "none", EmptyDict)
                    /\ LocalsAfter(s)
               ELSE /\ pc' = [pc EXCEPT ![s] = "gate"]
                    /\ indicators' = [indicators EXCEPT ![s] = ind]
                    /\ UNCHANGED <<future, history_data, factor_158>>
          ELSE /\ pc' = [pc EXCEPT ![s] = "factor"]
               /\ indicators' = [indicators EXCEPT ![s] = ind]
               /\ UNCHANGED <<future, history_data, factor_158>>
    /\ UNCHANGED <<variant, mode, current_data, verdict, llmCalls, raisedAt,
                   files, writing, writeLog>>
    /\ UNCHANGED orchVars

\* get_factor_158([stock_code]).get(stock_code, 0.0)
FetchFactor(s) ==
    /\ pc[s] = "factor"
    /\ \E f \in Factors : factor_158' = [factor_158 EXCEPT ![s] = f]
    /\ pc' = [pc EXCEPT ![s] = "gate"]
    /\ UNCHANGED <<variant, mode, history_data, current_data, indicators,
                   verdict, llmCalls, future, raisedAt, files, writing,
                   writeLog>>
    /\ UNCHANGED orchVars

\* Gate that builds no default record and goes on to the prompt regardless
GateFallsThrough(s) ==
    /\ pc[s] = "gate"
    /\ verdict' = [verdict EXCEPT ![s] =
          IF IsPromising(variant, indicators[s], factor_158[s])
          THEN "accept" ELSE "reject"]
    /\ pc' = [pc EXCEPT ![s] = "prompt"]
    /\ UNCHANGED <<variant, mode, history_data, current_data, indicators,
                   factor_158, llmCalls, future, raisedAt, files, writing,
                   writeLog>>
    /\ UNCHANGED orchVars

\* if not self._is_promising(...): the default record, else on to the prompt
Gate(s) ==
    /\ pc[s] = "gate"
    /\ IF IsPromising(variant, indicators[s], factor_158[s])
       THEN /\ verdict' = [verdict EXCEPT ![s] = "accept"]
            /\ pc' = [pc EXCEPT ![s] = "prompt"]
            /\ UNCHANGED future
       ELSE /\ verdict' = [verdict EXCEPT ![s] = "reject"]
            /\ LET rec == DefaultRecord(variant, s, current_data[s], factor_158[s])
               IN IF BranchSaves(variant, mode, "default")
                  THEN GoesToSave(s, rec)
                  ELSE Returns(s, "record", rec)
    /\ LocalsAfter(s)
    /\ UNCHANGED <<variant, mode, current_data, llmCalls, raisedAt, files,
                   writing, writeLog>>
    /\ UNCHANGED orchVars

\* _build_human_prompt (the analyst nodes' prompts in AnalysisFlow) reads
\* current_data.get(...): with no quote that is a call on None, which raises
\* before the try block is entered
BuildPrompt(s) ==
    /\ pc[s] = "prompt"
    /\ IF current_data[s] = "present"
       THEN /\ pc' = [pc EXCEPT ![s] = "llm"]
            /\ UNCHANGED <<future, raisedAt>>
       ELSE Raises(s, "prompt")
    /\ LocalsAfter(s)
    /\ UNCHANGED <<variant, mode, current_data, verdict, llmCalls, files,
                   writing, writeLog>>
    /\ UNCHANGED orchVars

\* llm.invoke and the parsing of its answer.  In Analysis and Analysis2560 a
\* failure is caught and the call returns None; in AnalysisFlow a failing
\* invoke propagates and an unparsable answer becomes an error record
InvokeLLM(s) ==
    /\ pc[s] = "llm"
    /\ llmCalls' = [llmCalls EXCEPT ![s] = @ + 1]
    /\ \/ \E resp \in LLMResponses(s, current_data[s]) :
             LET rec == AssembleRecord(variant, s, current_data[s],
                                       factor_158[s], resp)
             IN /\ IF BranchSaves(variant, mode, "llm")
                   THEN GoesToSave(s, rec)
                   ELSE Returns(s, "record", rec)
                /\ UNCHANGED raisedAt
       \/ /\ variant # "AnalysisFlow"
          /\ Returns(s, "none", EmptyDict)
          /\ raisedAt' = [raisedAt EXCEPT ![s] = "llm"]
       \/ /\ variant = "AnalysisFlow"
          /\ Raises(s, "llm")
       \/ /\ variant = "AnalysisFlow"
          /\ GoesToSave(s, [alpha158 |-> factor_158[s]] @@ FlowErrorRecord(s))
          /\ UNCHANGED raisedAt
    /\ LocalsAfter(s)
    /\ UNCHANGED <<variant, mode, current_data, verdict, files, writing,
                   writeLog>>
    /\ UNCHANGED orchVars

\* the call enters the write of its own file
SaveBegin(s) ==
    /\ pc[s] = "save"
    /\ pc' = [pc EXCEPT ![s] = "saving"]
    /\ writing' = writing \cup {<<s, "single">>}
    /\ UNCHANGED <<variant, mode, history_data, current_data, indicators,
                   factor_158, verdict, llmCalls, future, raisedAt, files,
                   writeLog>>
    /\ UNCHANGED orchVars

\* the write ends: _save_to_excel(result_dict, filename) (AnalysisFlow._save).
\* A raising write is caught only where the write sits inside the try block
SaveEnd(s) ==
    /\ pc[s] = "saving"
    /\ writing' = writing \ {<<s, "single">>}
    /\ \E writeOk \in BOOLEAN :
          LET res == SaveToExcel(variant, files.single, <<future[s].rec>>,
                                 FALSE, TRUE, writeOk)
          IN /\ files' = [files EXCEPT !.single = res.file]
             /\ IF ~res.raised
                THEN /\ Returns(s, "record", future[s].rec)
                     /\ writeLog' = Append(writeLog,
                           [by |-> s, file |-> "single", how |-> res.how,
                            phase |-> "single"])
                     /\ UNCHANGED raisedAt
                ELSE /\ UNCHANGED writeLog
                     /\ IF verdict[s] = "accept" /\ variant # "AnalysisFlow"
                        THEN /\ Returns(s, "none", EmptyDict)
                             /\ raisedAt' = [raisedAt EXCEPT ![s] = "save"]
                        ELSE Raises(s, "save")
    /\ LocalsAfter(s)
    /\ UNCHANGED <<variant, mode, current_data, verdict, llmCalls>>
    /\ UNCHANGED orchVars

\* any step outside the try block may raise; the exception leaves the call
WorkerRaise(s) ==
    /\ pc[s] \in UnguardedStages
    /\ Raises(s, pc[s])
    /\ LocalsAfter(s)
    /\ UNCHANGED <<variant, mode, current_data, verdict, llmCalls, files,
                   writing, writeLog>>
    /\ UNCHANGED orchVars

\* ------------------------------------------------------------------------
\* batch_analysis (Analysis and Analysis2560)
\* ------------------------------------------------------------------------
\* executor.submit for every code
Submit ==
    /\ opc = "start"
    /\ pc' = [s \in Symbols |-> "queued"]
    /\ opc' = "loop"
    /\ UNCHANGED <<variant, mode, history_data, current_data, indicators,
                   factor_158, verdict, llmCalls, future, raisedAt, cur,
                   is_first, consumed, valid_results, buy_stocks, files,
                   writing, writeLog, persistReturned>>

\* is_first as the loop computes it: Analysis before appending the record,
\* Analysis2560 after
IsFirst(v, results) ==
    IF v = "Analysis" THEN Len(results) = 0 ELSE Len(results) = 1

\* TakeCompleted with as_completed yielding only the futures that hold a
\* record
TakeCompletedRecordsOnly(s) ==
    /\ opc = "loop"
    /\ s \notin consumed
    /\ pc[s] \in Finished
    /\ future[s].kind = "record"
    /\ consumed' = consumed \cup {s}
    /\ cur' = s
    /\ valid_results' = IF variant = "Analysis" THEN valid_results
                        ELSE Append(valid_results, future[s].rec)
    /\ is_first' = IsFirst(variant, valid_results')
    /\ opc' = "persist"
    /\ UNCHANGED <<variant, mode, buy_stocks, files, writing, writeLog,
                   persistReturned>>
    /\ UNCHANGED workerVars

\* as_completed yields a finished future; future.result() re-raises the
\* call's exception into the except clause, None is skipped, a record goes
\* to the incremental persist (Analysis2560 appends it to the buffer first)
TakeCompleted(s) ==
    /\ opc = "loop"
    /\ s \notin consumed
    /\ pc[s] \in Finished
    /\ consumed' = consumed \cup {s}
    /\ IF future[s].kind = "record"
       THEN /\ cur' = s
            /\ valid_results' = IF variant = "Analysis" THEN valid_results
                                ELSE Append(valid_results, future[s].rec)
            /\ is_first' = IsFirst(variant, valid_results')
            /\ opc' = "persist"
       ELSE UNCHANGED <<cur, valid_results, is_first, opc>>
    /\ UNCHANGED <<variant, mode, buy_stocks, files, writing, writeLog,
                   persistReturned>>
    /\ UNCHANGED workerVars

\* the loop enters self._save_to_excel(result, filename, append=not is_first)
PersistBegin ==
    /\ opc = "persist"
    /\ opc' = "persisting"
    /\ writing' = writing \cup {<<Orchestrator, "batch">>}
    /\ UNCHANGED <<variant, mode, cur, is_first, consumed, valid_results,
                   buy_stocks, files, writeLog, persistReturned>>
    /\ UNCHANGED workerVars

\* the write ends.  If it raised, the except clause of the loop takes over:
\* Analysis has not appended the record yet and never will
PersistEnd ==
    /\ opc = "persisting"
    /\ writing' = writing \ {<<Orchestrator, "batch">>}
    /\ opc' = "loop"
    /\ \E appendOk, writeOk \in BOOLEAN :
          LET res == SaveToExcel(variant, files.batch, <<future[cur].rec>>,
                                 ~is_first, appendOk, writeOk)
          IN /\ files' = [files EXCEPT !.batch = res.file]
             /\ IF ~res.raised
                THEN /\ writeLog' = Append(writeLog,
                           [by |-> Orchestrator, file |-> "batch",
                            how |-> res.how, phase |-> "incremental"])
                     /\ persistReturned' = persistReturned \cup {cur}
                     /\ valid_results' =
                           IF variant = "Analysis"
                           THEN Append(valid_results, future[cur].rec)
                           ELSE valid_results
                     /\ UNCHANGED raisedAt
                ELSE /\ raisedAt' = [raisedAt EXCEPT ![cur] = "persist"]
                     /\ UNCHANGED <<writeLog, persistReturned, valid_results>>
    /\ UNCHANGED <<variant, mode, cur, is_first, consumed, buy_stocks>>
    /\ UNCHANGED <<pc, history_data, current_data, indicators, factor_158,
                   verdict, llmCalls, future>>

\* the with block is left once every future was handled; with results in the
\* buffer the ranker sorts them and enters the overwriting write
Rank ==
    /\ opc = "loop"
    /\ consumed = Symbols
    /\ IF valid_results = <<>>
       THEN /\ opc' = "done"
            /\ UNCHANGED <<valid_results, writing>>
       ELSE /\ valid_results' = SortByConfidence(valid_results)
            /\ writing' = writing \cup {<<Orchestrator, "batch">>}
            /\ opc' = "ranking"
    /\ UNCHANGED <<variant, mode, cur, is_first, consumed, buy_stocks, files,
                   writeLog, persistReturned>>
    /\ UNCHANGED workerVars

\* self._save_to_excel(valid_results, filename, append=False) ends; if it
\* raises, batch_analysis raises
RankEnd ==
    /\ opc = "ranking"
    /\ writing' = writing \ {<<Orchestrator, "batch">>}
    /\ \E writeOk \in BOOLEAN :
          LET res == SaveToExcel(variant, files.batch, valid_results,
                                 FALSE, TRUE, writeOk)
          IN /\ files' = [files EXCEPT !.batch = res.file]
             /\ IF ~res.raised
                THEN /\ writeLog' = Append(writeLog,
                           [by |-> Orchestrator, file |-> "batch",
                            how |-> res.how, phase |-> "ranker"])
                     /\ opc' = "select"
                ELSE /\ opc' = "raised"
                     /\ UNCHANGED writeLog
    /\ UNCHANGED <<variant, mode, cur, is_first, consumed, valid_results,
                   buy_stocks, persistReturned>>
    /\ UNCHANGED workerVars

\* buy_stocks = [r for r in valid_results if ...]; written only if not empty
Select ==
    /\ opc = "select"
    /\ buy_stocks' = FilterBuy(valid_results)
    /\ IF buy_stocks' = <<>>
       THEN /\ opc' = "done"
            /\ UNCHANGED writing
       ELSE /\ opc' = "selecting"
            /\ writing' = writing \cup {<<Orchestrator, "selected">>}
    /\ UNCHANGED <<variant, mode, cur, is_first, consumed, valid_results,
                   files, writeLog, persistReturned>>
    /\ UNCHANGED workerVars

\* self._save_to_excel(buy_stocks, selected_filename) ends
SelectEnd ==
    /\ opc = "selecting"
    /\ writing' = writing \ {<<Orchestrator, "selected">>}
    /\ \E writeOk \in BOOLEAN :
          LET res == SaveToExcel(variant, files.selected, buy_stocks,
                                 FALSE, TRUE, writeOk)
          IN /\ files' = [files EXCEPT !.selected = res.file]
             /\ IF ~res.raised
                THEN /\ writeLog' = Append(writeLog,
                           [by |-> Orchestrator, file |-> "selected",
                            how |-> res.how, phase |-> "selected"])
                     /\ opc' = "done"
                ELSE /\ opc' = "raised"
                     /\ UNCHANGED writeLog
    /\ UNCHANGED <<variant, mode, cur, is_first, consumed, valid_results,
                   buy_stocks, persistReturned>>
    /\ UNCHANGED workerVars

\* ------------------------------------------------------------------------
\* Specification
\* ------------------------------------------------------------------------
Next ==
    \/ Submit
    \/ \E s \in Symbols : WorkerStart(s)
    \/ \E s \in Symbols : FetchInfo(s)
    \/ \E s \in Symbols : FetchHistory(s)
    \/ \E s \in Symbols : FetchQuote(s)
    \/ \E s \in Symbols : ComputeIndicators(s)
    \/ \E s \in Symbols : FetchFactor(s)
    \/ \E s \in Symbols : Gate(s)
    \/ \E s \in Symbols : BuildPrompt(s)
    \/ \E s \in Symbols : InvokeLLM(s)
    \/ \E s \in Symbols : SaveBegin(s)
    \/ \E s \in Symbols : SaveEnd(s)
    \/ \E s \in Symbols : WorkerRaise(s)
    \/ \E s \in Symbols : TakeCompleted(s)
    \/ PersistBegin
    \/ PersistEnd
    \/ Rank
    \/ RankEnd
    \/ Select
    \/ SelectEnd

Spec == Init /\ [][Next]_vars

TypeOK ==
    /\ variant \in Variants
    /\ mode \in {"batch", "single"}
    /\ \A s \in Symbols : llmCalls[s] \in 0..1
    /\ opc \in {"none", "start", "loop", "persist", "persisting", "ranking",
                "select", "selecting", "done", "raised"}

\* ------------------------------------------------------------------------
\* Vocabulary of the properties
\* ------------------------------------------------------------------------
\* the symbols of which some step failed (raised, or was caught failing)
FailedSymbols == {s \in Symbols : raisedAt[s] # "none"}

\* the record the call of s produced
RecordOf(s) == future[s].rec

InBuffer(s) == \E i \in 1..Len(valid_results) : valid_results[i] = RecordOf(s)

Incremental(i) == writeLog[i].phase = "incremental"

RankerWrites == {i \in 1..Len(writeLog) : writeLog[i].phase = "ranker"}

SortedDescending(list) ==
    \A i, j \in 1..Len(list) :
        i < j => Get(list[i], "confidence", 0) >= Get(list[j], "confidence", 0)

\* the recommendation text holds the two characters of the buy tag in a row
HasBuyTag(r) ==
    /\ "recommendation" \in DOMAIN r
    /\ \E i \in 1..(Len(r.recommendation) - 1) :
          r.recommendation[i] = "mai3" /\ r.recommendation[i + 1] = "ru4"

\* out is inp reordered by confidence descending with ties in inp's order
StableSortOf(out, inp) ==
    /\ Len(out) = Len(inp)
    /\ \E p \in [1..Len(inp) -> 1..Len(inp)] :
          /\ \A i, j \in 1..Len(inp) : i # j => p[i] # p[j]
          /\ \A i \in 1..Len(inp) : out[i] = inp[p[i]]
          /\ \A i, j \in 1..Len(inp) :
                i < j =>
                   \/ Get(out[i], "confidence", 0) > Get(out[j], "confidence", 0)
                   \/ /\ Get(out[i], "confidence", 0) = Get(out[j], "confidence", 0)
                      /\ p[i] < p[j]

\* ------------------------------------------------------------------------
\* Properties
\* ------------------------------------------------------------------------

\* C1: when batch_analysis has returned, the results buffer holds exactly the
\* records of the symbols none of whose steps failed: one record for each of
\* them and none for a symbol of which a step (the incremental persist
\* included) raised.
C1_ExactlyTheUnfailed ==
    (mode = "batch" /\ opc = "done") =>
        /\ Len(valid_results) = NumSymbols - Cardinality(FailedSymbols)
        /\ \A s \in Symbols : s \notin FailedSymbols <=> InBuffer(s)

\* C2: with N symbols and no failing collaborator (no step failed, every
\* quote was delivered), the batch file holds N rows when batch_analysis has
\* returned, no symbol twice, by confidence descending.
C2_AllPersistedOnceSorted ==
    (/\ mode = "batch"
     /\ opc = "done"
     /\ \A s \in Symbols : raisedAt[s] = "none" /\ current_data[s] = "present")
    => /\ files.batch.exists
       /\ Len(files.batch.rows) = NumSymbols
       /\ \A i, j \in 1..Len(files.batch.rows) :
             i # j => files.batch.rows[i].stock_code # files.batch.rows[j].stock_code
       /\ SortedDescending(files.batch.rows)

\* C3: a pipeline call for a known symbol that returned with no step having
\* failed returned a record, also when the snapshot was empty.
C3_GateNeverSuppresses ==
    \A s \in Symbols :
        (/\ pc[s] = "returned"
         /\ raisedAt[s] = "none"
         /\ current_data[s] # "unset")
        => future[s].kind = "record"

\* C4: while the loop of batch_analysis runs, the batch file holds the row of
\* every record whose incremental persist call has returned.
C4_NoCompletedRecordLost ==
    (mode = "batch" /\ opc \in {"loop", "persist", "persisting"}) =>
        \A s \in persistReturned :
            \E i \in 1..Len(files.batch.rows) :
                files.batch.rows[i] = Row(variant, RecordOf(s))

\* C5: of the incremental writes, the first is an overwriting write and every
\* later one is an append.
C5_FirstOverwritesRestAppend ==
    \A i \in 1..Len(writeLog) :
        Incremental(i) =>
            IF \A j \in 1..(i - 1) : ~Incremental(j)
            THEN writeLog[i].how = "overwrite"
            ELSE writeLog[i].how = "append"

\* C6: in a batch at most one thread is inside a write at any moment, that
\* thread is the one running batch_analysis, every write that went through
\* was made by it, and the results buffer changes only in its steps.
C6_WritesSerialized ==
    /\ [](mode = "batch" =>
            /\ Cardinality(writing) <= 1
            /\ \A w \in writing : w[1] = Orchestrator
            /\ \A i \in 1..Len(writeLog) : writeLog[i].by = Orchestrator)
    /\ [][valid_results' # valid_results => pc' = pc]_vars

\* C6 witness: the orchestrator is inside an incremental write while a call
\* is still running in the pool.
C6_Witness ==
    /\ mode = "batch"
    /\ <<Orchestrator, "batch">> \in writing
    /\ \E s \in Symbols : pc[s] \in RunningStages

\* C7: the ranker's sort leaves the buffer a permutation of what it was,
\* by confidence descending (none counting as 0), ties in completion order.
C7_StableSort ==
    [][(opc = "loop" /\ opc' = "ranking") =>
            StableSortOf(valid_results', valid_results)]_vars

\* C7 witness: the ranker has sorted a buffer in which a record with
\* confidence 0 and a record without confidence tie, behind or before others.
C7_Witness ==
    /\ opc = "ranking"
    /\ Len(valid_results) >= 2
    /\ \E i, j \in 1..Len(valid_results) :
          /\ i < j
          /\ Confidence(valid_results[i]) = Confidence(valid_results[j])
          /\ "confidence" \notin DOMAIN valid_results[i]
                \/ "confidence" \notin DOMAIN valid_results[j]

C9_BuySubset ==
    (mode = "batch" /\ opc = "done") =>
        /\ files.selected.exists <=>
              \E i \in 1..Len(valid_results) : HasBuyTag(valid_results[i])
        /\ \A i \in 1..Len(files.batch.rows) :
              HasBuyTag(files.batch.rows[i]) <=>
                 \E k \in 1..Len(files.selected.rows) :
                    files.selected.rows[k] = files.batch.rows[i]
        /\ \A k \in 1..Len(files.selected.rows) :
              \E i \in 1..Len(files.batch.rows) :
                 files.batch.rows[i] = files.selected.rows[k]
        /\ \A k, l \in 1..Len(files.selected.rows) :
              k < l =>
                 \E i, j \in 1..Len(files.batch.rows) :
                    /\ i < j
                    /\ files.batch.rows[i] = files.selected.rows[k]
                    /\ files.batch.rows[j] = files.selected.rows[l]

\* C9 witness: a batch has returned with a selected file that holds a buy
\* record of the lowest confidence while the batch file holds more rows.
C9_Witness ==
    /\ mode = "batch"
    /\ opc = "done"
    /\ files.selected.exists
    /\ \E k \in 1..Len(files.selected.rows) :
          Get(files.selected.rows[k], "confidence", 0) <= DefaultConfidence
    /\ Len(files.batch.rows) > Len(files.selected.rows)

\* C10: for a symbol the gate rejected the analysis collaborator is never
\* called and the record is the default one (hold/watch, confidence 0.1);
\* the collaborator is called only for a symbol the gate accepted.
C10_RejectShortCircuits ==
    \A s \in Symbols :
        /\ verdict[s] = "reject" =>
              /\ llmCalls[s] = 0
              /\ pc[s] \notin {"prompt", "llm"}
              /\ DOMAIN future[s].rec # {} =>
                    /\ future[s].rec.recommendation = <<"guan1", "wang4">>
                    /\ future[s].rec.confidence = 10
        /\ (llmCalls[s] > 0 \/ pc[s] = "llm") => verdict[s] = "accept"

\* C10 witness: one symbol returned the default record after the gate
\* rejected it, another had the collaborator called.
C10_Witness ==
    \E s, t \in Symbols :
        /\ verdict[s] = "reject"
        /\ pc[s] = "returned"
        /\ future[s].kind = "record"
        /\ llmCalls[t] = 1

\* ========================================================================
\* The factor source: Database.get_factor_158 and its fallback
\* ========================================================================
MaxCodes == 2

Codes == {"600000", "000001", "601096"}

\* int(hashlib.md5(code.encode()).hexdigest(), 16) for the codes of the
\* model, its last nine decimal digits (1000 divides 10^9)
Md5Tail(code) ==
    CASE code = "600000" -> 440715490
      [] code = "000001" -> 588763387
      [] code = "601096" -> 697359073

\* the hash taken around zero: (... % 1000) - 500
Md5Mod1000Centred(code) == (Md5Tail(code) % 1000) - 500

\* int(hashlib.md5(code.encode()).hexdigest(), 16) % 1000
Md5Mod1000(code) == Md5Tail(code) % 1000

\* hash_value = ... % 1000 / 100.0, in hundredths
Fallback(code) == Md5Mod1000(code)

\* the lists of codes a caller may pass
Requests == UNION {[1..k -> Codes] : k \in 0..MaxCodes}

\* the rows of stock_daily_feature_aplah158: a factor for some of the codes
FactorTables == UNION {[D -> Factors] : D \in SUBSET Codes}

\* get_factor_158 without the loop that fills in the codes left unanswered
GetFactor158RowsOnly(stock_codes, table, fails) ==
    IF fails THEN EmptyDict
    ELSE [c \in Range(stock_codes) \cap DOMAIN table |-> table[c]]

\* fails: pd.read_sql raised, which the except clause swallows with
\* result_dict still empty
GetFactor158(stock_codes, table, fails) ==
    IF Len(stock_codes) = 0 THEN EmptyDict
    ELSE LET result_dict ==
                 IF fails THEN EmptyDict
                 ELSE [c \in Range(stock_codes) \cap DOMAIN table |-> table[c]]
         IN  [c \in Range(stock_codes) |->
                 IF c \in DOMAIN result_dict THEN result_dict[c]
                 ELSE Fallback(c)]

\* ========================================================================
\* The screening gates on their own: _is_promising applied to snapshots
\* drawn from a bounded set, twice in a row on the same arguments
\* ========================================================================
GatePrices == {850, 900, 950}

GateAverages == {900, 1000, 1100}

GateHists == {-20, 0, 20}

GateFactors == {-100, -51, -50, 10}

GateChanges == {-3, 0, 4}

\* database.get_factor_158([stock_code]).get(stock_code, 0.0) for a code
\* the factor table has no row for, the query failing or not
FallbackFactors ==
    {Get(GetFactor158(<<c>>, EmptyDict, fails), c, 0) :
        c \in Codes, fails \in BOOLEAN}

\* latest rows of a 70-bar history as Analysis and AnalysisFlow see them
ShortRows ==
    {[n |-> 70, close |-> c, ma5 |-> a, ma20 |-> b, ma60 |-> d,
      mean_all |-> d, macd_hist |-> m] :
        c \in GatePrices, a \in GateAverages, b \in GateAverages,
        d \in GateAverages, m \in GateHists}

\* latest rows of a 70-bar history as Analysis2560 sees them
Rows2560 ==
    {[n |-> 70, close |-> c, ma25 |-> 1000, ma60 |-> d,
      ma25_change |-> x, ma60_change |-> y] :
        c \in {850, 899, 900, 901, 1000}, d \in {1000, 1100},
        x \in GateChanges, y \in GateChanges}

GateRows(v) ==
    (IF v = "Analysis2560" THEN Rows2560 ELSE ShortRows) \cup {HistTooShort}

\* nothing of the orchestrator or of the files is in use
Idle ==
    /\ verdict = [s \in Symbols |-> "none"]
    /\ llmCalls = [s \in Symbols |-> 0]
    /\ future = [s \in Symbols |-> Pending]
    /\ raisedAt = [s \in Symbols |-> "none"]
    /\ current_data = [s \in Symbols |-> "unset"]
    /\ opc = "none"
    /\ cur = 0
    /\ is_first = FALSE
    /\ consumed = {}
    /\ valid_results = <<>>
    /\ buy_stocks = <<>>
    /\ files = [batch |-> NoFile, selected |-> NoFile, single |-> NoFile]
    /\ writing = {}
    /\ writeLog = <<>>
    /\ persistReturned = {}

GateInit ==
    /\ variant \in Variants
    /\ mode = "gate"
    /\ pc = [s \in Symbols |-> IF s = 1 THEN "call" ELSE "unused"]
    /\ \E h \in GateRows(variant) :
          /\ history_data = [s \in Symbols |-> IF s = 1 THEN h ELSE NoHistory]
          /\ indicators = [s \in Symbols |->
                              IF s = 1 THEN CalcIndicators(variant, h)
                              ELSE EmptyDict]
    /\ \E f \in GateFactors \cup FallbackFactors :
          factor_158 = [s \in Symbols |-> IF s = 1 THEN f ELSE 0]
    /\ Idle

\* self._is_promising(indicators, factor_158): the function reads its
\* arguments with .get() and assigns nothing outside its own locals
CallIsPromising(s) ==
    /\ pc[s] \in {"call", "recall"}
    /\ verdict' = [verdict EXCEPT ![s] =
                      IF IsPromising(variant, indicators[s], factor_158[s])
                      THEN "accept" ELSE "reject"]
    /\ pc' = [pc EXCEPT ![s] = IF pc[s] = "call" THEN "recall" ELSE "called"]
    /\ UNCHANGED <<variant, mode, history_data, current_data, indicators,
                   factor_158, llmCalls, future, raisedAt, files, writing,
                   writeLog>>
    /\ UNCHANGED orchVars

GateNext == \E s \in Symbols : CallIsPromising(s)

GateSpec == GateInit /\ [][GateNext]_vars

ShortVariants == {"Analysis", "AnalysisFlow"}

\* the gate has answered at least once for s
Answered(s) == pc[s] \in {"recall", "called"}

PriceOf(s) == history_data[s].close

\* C12: for a non-empty snapshot and a factor score of at least -0.5 the
\* short-horizon gate rejects exactly when MA5 < MA20 < MA60, the price is
\* below MA5 and the MACD histogram is negative.
C12_RejectsIffBearish ==
    \A s \in Symbols :
        (/\ variant \in ShortVariants
         /\ Answered(s)
         /\ DOMAIN indicators[s] # {}
         /\ factor_158[s] >= -50) =>
            (verdict[s] = "reject" <=>
                /\ indicators[s].ma5 < indicators[s].ma20
                /\ indicators[s].ma20 < indicators[s].ma60
                /\ PriceOf(s) < indicators[s].ma5
                /\ indicators[s].macd_hist < 0)

MaxBars == 63

NaN == <<>>

Num(x) == <<x>>

\* a raw field of a row of stock_daily: a number, None (NULL) or a text
RawNum(x) == [t |-> "num", v |-> x]

RawNone == [t |-> "none"]

RawStr == [t |-> "str"]

\* pd.to_numeric(value, errors='coerce'); None read into a frame is NaN too
ToNumeric(raw) == IF raw.t = "num" THEN Num(raw.v) ELSE NaN

\* history_data[::-1]: newest-first to chronological
ChronologicalAsIs(rows) == rows

Chronological(rows) == [i \in 1..Len(rows) |-> rows[Len(rows) + 1 - i]]

\* the column of the frame for one field, after coercion
Column(df, field) == [i \in 1..Len(df) |-> ToNumeric(df[i][field])]

\* rolling(window=w) at row i is defined when the w rows up to i exist and
\* none of them is NaN (min_periods defaults to the window)
WindowDefined(col, i, w) ==
    /\ w >= 1
    /\ i - w + 1 >= 1
    /\ i <= Len(col)
    /\ \A j \in (i - w + 1)..i : col[j] # NaN

RECURSIVE SumRange(_, _, _)
SumRange(col, from, to) ==
    IF from > to THEN 0 ELSE col[to][1] + SumRange(col, from, to - 1)

\* the sum behind rolling(window=w).mean() at row i
RollingSum(col, i, w) == SumRange(col, i - w + 1, i)

\* round(a / b) for a >= 0, b > 0, ties to even
RoundDiv(a, b) ==
    LET q == a \div b
        r == a % b
    IN  IF 2 * r < b THEN q
        ELSE IF 2 * r > b THEN q + 1
        ELSE IF q % 2 = 0 THEN q ELSE q + 1

\* round(mean, digits) if the mean is defined, else the default
RollingMeanPartial(col, i, w, default) ==
    IF i >= 1 /\ \A j \in 1..i : col[j] # NaN
    THEN IF i >= w THEN RoundDiv(RollingSum(col, i, w), w)
         ELSE RoundDiv(SumRange(col, 1, i), i)
    ELSE default

RollingMean(col, i, w, default) ==
    IF WindowDefined(col, i, w) THEN RoundDiv(RollingSum(col, i, w), w)
    ELSE default

\* is_above_<ma>: bool(close > mean) on the unrounded mean, None (no key)
\* when the mean is NaN
IsAbove(col, i, w, flag) ==
    IF WindowDefined(col, i, w)
    THEN [f \in {flag} |-> w * col[i][1] > RollingSum(col, i, w)]
    ELSE EmptyDict

\* volume / vma5 rounded to 2 places, 0 when vma5 is NaN or not positive
VolumeRatio(vol, i) ==
    IF WindowDefined(vol, i, 5) /\ RollingSum(vol, i, 5) > 0
    THEN RoundDiv(100 * 5 * vol[i][1], RollingSum(vol, i, 5))
    ELSE 0

\* the default of the rsi field when the value is NaN
RsiDefault == 5000

\* delta = close.diff() at row j: NaN at the first row and next to a NaN
DeltaDefined(col, j) == j >= 2 /\ col[j] # NaN /\ col[j - 1] # NaN

\* delta.where(delta > 0, 0): NaN and non-positive changes count as 0
Gain(col, j) ==
    IF DeltaDefined(col, j) /\ col[j][1] > col[j - 1][1]
    THEN col[j][1] - col[j - 1][1] ELSE 0

\* -delta.where(delta < 0, 0)
Loss(col, j) ==
    IF DeltaDefined(col, j) /\ col[j][1] < col[j - 1][1]
    THEN col[j - 1][1] - col[j][1] ELSE 0

RECURSIVE SumGain(_, _, _)
SumGain(col, from, to) ==
    IF from > to THEN 0 ELSE Gain(col, to) + SumGain(col, from, to - 1)

RECURSIVE SumLoss(_, _, _)
SumLoss(col, from, to) ==
    IF from > to THEN 0 ELSE Loss(col, to) + SumLoss(col, from, to - 1)

\* 14 times the rolling(14) means of gain and loss at row i
AvgGain14(col, i) == SumGain(col, i - 13, i)

AvgLoss14(col, i) == SumLoss(col, i - 13, i)

\* Rsi with the division by a zero loss giving inf for a zero gain too
RsiInfWithoutLoss(col, i) ==
    IF i < 14 THEN RsiDefault
    ELSE IF AvgLoss14(col, i) = 0 THEN 10000
    ELSE RoundDiv(10000 * AvgGain14(col, i),
                  AvgGain14(col, i) + AvgLoss14(col, i))

\* rs = gain / loss; rsi = 100 - 100 / (1 + rs), rounded to 2 places.
\* 0 / 0 is NaN (the default applies); gain / 0 with gain > 0 is inf, and
\* 100 - 100 / (1 + inf) is 100.  Otherwise 100 * gain / (gain + loss).
Rsi(col, i) ==
    IF i < 14 THEN RsiDefault
    ELSE IF AvgLoss14(col, i) = 0
         THEN IF AvgGain14(col, i) = 0 THEN RsiDefault ELSE 10000
    ELSE RoundDiv(10000 * AvgGain14(col, i),
                  AvgGain14(col, i) + AvgLoss14(col, i))

\* Bollinger bands: rolling(20).mean() +/- 2 * rolling(20).std(), the sample
\* standard deviation.  With S the sum of the window and
\* V = 20 * sum(x^2) - S^2, two deviations are sqrt(V / 95); the band is the
\* integer (in hundredths) nearest to S / 20 +/- sqrt(V / 95).
RECURSIVE SumSqDev(_, _, _, _)
SumSqDev(col, from, to, c) ==
    IF from > to THEN 0
    ELSE (col[to][1] - c) * (col[to][1] - c) + SumSqDev(col, from, to - 1, c)

\* V computed on the deviations from the latest value (V is shift invariant)
SpreadV(col, i) ==
    LET c == col[i][1]
        d1 == RollingSum(col, i, 20) - 20 * c
    IN  20 * SumSqDev(col, i - 19, i, c) - d1 * d1

WindowRange(col, i, w) ==
    LET vals == {col[j][1] : j \in (i - w + 1)..i}
    IN  (CHOOSE x \in vals : \A y \in vals : y <= x)
        - (CHOOSE x \in vals : \A y \in vals : x <= y)

BandUpper(col, i) ==
    IF ~WindowDefined(col, i, 20) THEN 0
    ELSE LET S == RollingSum(col, i, 20)
             V == SpreadV(col, i)
             lo == S \div 20
             span == 2 * WindowRange(col, i, 20) + 2
             AtMost(k) == LET t == 20 * k - 10 - S
                          IN  t <= 0 \/ 19 * t * t <= 80 * V
         IN  CHOOSE k \in lo..(lo + span) : AtMost(k) /\ ~AtMost(k + 1)

BandLower(col, i) ==
    IF ~WindowDefined(col, i, 20) THEN 0
    ELSE LET S == RollingSum(col, i, 20)
             V == SpreadV(col, i)
             lo == S \div 20
             span == 2 * WindowRange(col, i, 20) + 2
             AtMost(k) == LET u == S + 10 - 20 * k
                          IN  u >= 0 /\ 19 * u * u >= 80 * V
         IN  CHOOSE k \in (lo - span)..(lo + 1) : AtMost(k) /\ ~AtMost(k + 1)

\* what get_stock_history handed over: a list of rows, newest first
History(rows) == [absent |-> FALSE, bars |-> rows]

AbsentHistory == [absent |-> TRUE, bars |-> <<>>]

\* TooShort that only looks for a history with no bar at all
TooShortEmptyOnly(h, least) == h.absent \/ Len(h.bars) = 0

\* not history_data or len(history_data) < least
TooShort(h, least) == h.absent \/ Len(h.bars) < least

\* Analysis._calculate_indicators, the fields computed from fixed windows
SnapshotShort(h) ==
    IF TooShort(h, MinBars) THEN EmptyDict
    ELSE LET df == Chronological(h.bars)
             n == Len(df)
             close == Column(df, "close")
             volume == Column(df, "volume")
         IN  [ma5 |-> RollingMean(close, n, 5, 0),
              ma10 |-> RollingMean(close, n, 10, 0),
              ma20 |-> RollingMean(close, n, 20, 0),
              ma60 |-> RollingMean(close, n, 60, 0),
              vma5 |-> RollingMean(volume, n, 5, 0),
              vma10 |-> RollingMean(volume, n, 10, 0),
              rsi |-> Rsi(close, n),
              bb_upper |-> BandUpper(close, n),
              bb_lower |-> BandLower(close, n),
              volume_ratio |-> VolumeRatio(volume, n)]
             @@ IsAbove(close, n, 5, "is_above_ma5")
             @@ IsAbove(close, n, 10, "is_above_ma10")
             @@ IsAbove(close, n, 20, "is_above_ma20")
             @@ IsAbove(close, n, 60, "is_above_ma60")

\* TrendOf with an unchanged average called down
TrendOfFlatIsDown(col, i, w) ==
    IF WindowDefined(col, i, w) /\ WindowDefined(col, i - 3, w)
    THEN IF RollingSum(col, i, w) > RollingSum(col, i - 3, w) THEN "up"
         ELSE "down"
    ELSE "flat"

\* TrendOf with a missing earlier average taken as 0
TrendOfMissingAsZero(col, i, w) ==
    IF ~WindowDefined(col, i, w) THEN "flat"
    ELSE LET before == IF WindowDefined(col, i - 3, w)
                       THEN RollingSum(col, i - 3, w) ELSE 0
         IN  IF RollingSum(col, i, w) > before THEN "up"
             ELSE IF RollingSum(col, i, w) < before THEN "down"
             ELSE "flat"

\* the sign of <ma>.diff(3) at row i; NaN compares false both ways: "flat"
TrendOf(col, i, w) ==
    IF WindowDefined(col, i, w) /\ WindowDefined(col, i - 3, w)
    THEN IF RollingSum(col, i, w) > RollingSum(col, i - 3, w) THEN "up"
         ELSE IF RollingSum(col, i, w) < RollingSum(col, i - 3, w) THEN "down"
         ELSE "flat"
    ELSE "flat"

\* Analysis2560._calculate_indicators (the latest close is a number in the
\* histories of this model)
Snapshot2560(h) ==
    IF TooShort(h, MinBars2560) THEN EmptyDict
    ELSE LET df == Chronological(h.bars)
             n == Len(df)
             close == Column(df, "close")
             volume == Column(df, "volume")
         IN  [ma25 |-> RollingMean(close, n, 25, 0),
              ma60 |-> RollingMean(close, n, 60, 0),
              ma25_trend |-> TrendOf(close, n, 25),
              ma60_trend |-> TrendOf(close, n, 60),
              vma5 |-> RollingMean(volume, n, 5, 0),
              volume_ratio |-> VolumeRatio(volume, n),
              current_price |-> close[n][1]]
             @@ IsAbove(close, n, 25, "is_above_ma25")
             @@ IsAbove(close, n, 60, "is_above_ma60")

\* AnalysisFlow._calculate_indicators, which does not coerce: its histories
\* in this model hold numbers only
SnapshotFlow(h) ==
    IF TooShort(h, MinBars) THEN EmptyDict
    ELSE LET df == Chronological(h.bars)
             n == Len(df)
             close == Column(df, "close")
             volume == Column(df, "volume")
         IN  [ma5 |-> RollingMean(close, n, 5, 0),
              ma10 |-> RollingMean(close, n, 10, 0),
              ma20 |-> RollingMean(close, n, 20, 0),
              ma60 |-> RollingMean(close, n, IF n >= 60 THEN 60 ELSE n, 0),
              vma5 |-> RollingMean(volume, n, 5, 0),
              volume_ratio |-> VolumeRatio(volume, n),
              current_price |-> close[n][1]]

Snapshot(v, h) ==
    CASE v = "Analysis" -> SnapshotShort(h)
      [] v = "Analysis2560" -> Snapshot2560(h)
      [] OTHER -> SnapshotFlow(h)

\* ------------------------------------------------------------------------
\* The family of histories: a close that moves by step a bar and, from
\* kink bars before the end, by step2; a volume that grows by vstep a bar;
\* possibly one field of one row that is not a number
\* ------------------------------------------------------------------------
SeriesLens ==
    {0, 3, 4, 5, 9, 10, 13, 14, 15, 19, 20, 59, 60, 61, 62} \cup {MaxBars}

SeriesSteps == {-3, 0, 2, 5}

KinkAges == {0, 3, 7, 30}

VolumeSteps == {0, 10}

Min(a, b) == IF a <= b THEN a ELSE b

Max(a, b) == IF a >= b THEN a ELSE b

\* close of the i-th bar in time of a series of n bars
CloseAt(i, n, step, step2, kink) ==
    LET turn == Max(n - kink, 0)
    IN  1000 + step * Min(i, turn) + step2 * Max(0, i - turn)

\* the rows as the query returns them (ORDER BY date DESC): row r is the
\* bar n + 1 - r in time
RowsOf(n, step, step2, kink, vstep) ==
    [r \in 1..n |->
        [close |-> RawNum(CloseAt(n + 1 - r, n, step, step2, kink)),
         volume |-> RawNum(1000 + vstep * (n + 1 - r))]]

NoBad == [field |-> "none", pos |-> 0, raw |-> RawNone]

\* which field of which row (1 is the latest) holds what instead of a number
BadCases(v) ==
    {NoBad} \cup
    CASE v = "Analysis" ->
            [field : {"close", "volume"}, pos : {1, 8}, raw : {RawNone, RawStr}]
      [] v = "Analysis2560" ->
            [field : {"close", "volume"}, pos : {8}, raw : {RawNone, RawStr}]
      [] OTHER -> {}

WithBad(rows, bad) ==
    IF bad.field = "none" \/ bad.pos > Len(rows) THEN rows
    ELSE [rows EXCEPT ![bad.pos][bad.field] = bad.raw]

SeriesHistories(v) ==
    {AbsentHistory} \cup
    {History(WithBad(RowsOf(n, step, step2, kink, vstep), bad)) :
        n \in SeriesLens, step \in SeriesSteps, step2 \in SeriesSteps,
        kink \in KinkAges, vstep \in VolumeSteps, bad \in BadCases(v)}

IndicatorInit ==
    /\ variant \in Variants
    /\ mode = "indicators"
    /\ pc = [s \in Symbols |-> IF s = 1 THEN "compute" ELSE "unused"]
    /\ \E h \in SeriesHistories(variant) :
          history_data = [s \in Symbols |-> IF s = 1 THEN h ELSE AbsentHistory]
    /\ indicators = [s \in Symbols |-> EmptyDict]
    /\ factor_158 = [s \in Symbols |-> 0]
    /\ Idle

\* indicators = self._calculate_indicators(history_data)
CalculateIndicators(s) ==
    /\ pc[s] = "compute"
    /\ indicators' = [indicators EXCEPT ![s] = Snapshot(variant, history_data[s])]
    /\ pc' = [pc EXCEPT ![s] = "computed"]
    /\ UNCHANGED <<variant, mode, history_data, current_data, factor_158,
                   verdict, llmCalls, future, raisedAt, files, writing,
                   writeLog>>
    /\ UNCHANGED orchVars

IndicatorNext == \E s \in Symbols : CalculateIndicators(s)

IndicatorSpec == IndicatorInit /\ [][IndicatorNext]_vars

\* ---- vocabulary of the properties of the engine ----
Computed(s) == pc[s] = "computed"

BarsOf(s) == history_data[s].bars

NumBars(s) == IF history_data[s].absent THEN 0 ELSE Len(BarsOf(s))

\* the closes and volumes of s, oldest first, as numbers or NaN
ClosesOf(s) ==
    [i \in 1..NumBars(s) |-> ToNumeric(BarsOf(s)[NumBars(s) + 1 - i].close)]

VolumesOf(s) ==
    [i \in 1..NumBars(s) |-> ToNumeric(BarsOf(s)[NumBars(s) + 1 - i].volume)]

\* C14: a history of fewer than 5 bars, empty and absent included, gives
\* the empty snapshot in the three engines: no field at all.
C14_ShortHistoryEmptySnapshot ==
    \A s \in Symbols :
        (Computed(s) /\ NumBars(s) < 5) => DOMAIN indicators[s] = {}

\* a 4-bar history went through the engine
C14_Witness ==
    /\ Computed(1)
    /\ NumBars(1) = 4
    /\ indicators[1] = EmptyDict

\* the window of w bars ending at the latest bar fits and holds numbers only
Fits(col, w) == WindowDefined(col, Len(col), w)

SumLatest(col, w) == RollingSum(col, Len(col), w)

\* value is the mean of the latest w entries of col rounded to the unit, if
\* that window fits, and the default 0 otherwise
MeanOrZero(value, col, w) ==
    IF Fits(col, w)
    THEN 2 * (w * value - SumLatest(col, w)) <= w
         /\ 2 * (SumLatest(col, w) - w * value) <= w
    ELSE value = 0

\* the flag is None (no key) unless the window fits, and then says whether
\* the latest close lies above the mean
FlagOrNone(ind, flag, col, w) ==
    IF Fits(col, w)
    THEN flag \in DOMAIN ind
         /\ (ind[flag] <=> w * col[Len(col)][1] > SumLatest(col, w))
    ELSE flag \notin DOMAIN ind

\* C15: Analysis._calculate_indicators returns a snapshot for every history
\* of 5 <= n < 60 bars, also when a close or a volume is not a number: an
\* average, band, RSI or flag whose window does not fit, or holds a value
\* that is not a number, has its default (0, 50, None); one whose window fits
\* is computed from the latest bars.
C15_DefaultsNotExceptions ==
    \A s \in Symbols :
        (/\ variant = "Analysis"
         /\ Computed(s)
         /\ NumBars(s) >= 5
         /\ NumBars(s) < 60) =>
            LET ind == indicators[s]
                close == ClosesOf(s)
                volume == VolumesOf(s)
            IN  /\ {"ma5", "ma10", "ma20", "ma60", "vma5", "vma10", "rsi",
                    "bb_upper", "bb_lower", "volume_ratio"} \subseteq DOMAIN ind
                /\ MeanOrZero(ind.ma5, close, 5)
                /\ MeanOrZero(ind.ma10, close, 10)
                /\ MeanOrZero(ind.ma20, close, 20)
                /\ ind.ma60 = 0
                /\ MeanOrZero(ind.vma5, volume, 5)
                /\ MeanOrZero(ind.vma10, volume, 10)
                /\ FlagOrNone(ind, "is_above_ma5", close, 5)
                /\ FlagOrNone(ind, "is_above_ma10", close, 10)
                /\ FlagOrNone(ind, "is_above_ma20", close, 20)
                /\ "is_above_ma60" \notin DOMAIN ind
                /\ NumBars(s) < 14 => ind.rsi = 5000
                /\ NumBars(s) >= 14 => (ind.rsi >= 0 /\ ind.rsi <= 10000)
                /\ IF Fits(close, 20)
                   THEN ind.bb_lower <= ind.ma20 /\ ind.ma20 <= ind.bb_upper
                        /\ ind.bb_lower > 0
                   ELSE ind.bb_lower = 0 /\ ind.bb_upper = 0
                /\ ~Fits(volume, 5) => ind.volume_ratio = 0

\* 20 bars, one close in the latest 20 not a number: MA5 is computed, MA20,
\* the bands and MA60 have their defaults
C15_Witness ==
    /\ variant = "Analysis"
    /\ Computed(1)
    /\ NumBars(1) = 20
    /\ \E i \in 1..NumBars(1) : ClosesOf(1)[i] = NaN
    /\ indicators[1].ma5 > 0
    /\ indicators[1].ma20 = 0
    /\ indicators[1].bb_upper = 0
    /\ indicators[1].ma60 = 0
    /\ "is_above_ma5" \in DOMAIN indicators[1]
    /\ "is_above_ma20" \notin DOMAIN indicators[1]

\* every close of s is a number
FiniteCloses(s) == \A i \in 1..NumBars(s) : ClosesOf(s)[i] # NaN

\* C16: for a finite close series of at least 14 bars the rsi field lies in
\* [0, 100] and is exactly 50 whenever the 14-bar average loss is 0.
C16_RsiFiftyWithoutLoss ==
    \A s \in Symbols :
        (/\ variant = "Analysis"
         /\ Computed(s)
         /\ NumBars(s) >= 14
         /\ FiniteCloses(s)) =>
            /\ indicators[s].rsi >= 0
            /\ indicators[s].rsi <= 10000
            /\ AvgLoss14(ClosesOf(s), NumBars(s)) = 0 => indicators[s].rsi = 5000

StrictlyIncreasing(col) ==
    \A i \in 1..(Len(col) - 1) : col[i][1] < col[i + 1][1]

AllFlagsTrue(ind) ==
    /\ {"is_above_ma5", "is_above_ma10", "is_above_ma20", "is_above_ma60"}
           \subseteq DOMAIN ind
    /\ ind.is_above_ma5 /\ ind.is_above_ma10
    /\ ind.is_above_ma20 /\ ind.is_above_ma60

Rising60(s) ==
    /\ variant = "Analysis"
    /\ Computed(s)
    /\ NumBars(s) >= 60
    /\ FiniteCloses(s)
    /\ StrictlyIncreasing(ClosesOf(s))

\* C17 as written: on a strictly increasing close series of at least 60
\* bars MA5 <= MA10 <= MA20 <= MA60 and every is_above flag is true.
C17_AveragesAscending ==
    \A s \in Symbols :
        Rising60(s) =>
            /\ indicators[s].ma5 <= indicators[s].ma10
            /\ indicators[s].ma10 <= indicators[s].ma20
            /\ indicators[s].ma20 <= indicators[s].ma60
            /\ AllFlagsTrue(indicators[s])

\* C17 amended: on a strictly increasing close series of at least 60 bars
\* MA5 >= MA10 >= MA20 >= MA60 (the shorter the window, the later and higher
\* its bars) and every is_above flag is true.
C17_AveragesDescending ==
    \A s \in Symbols :
        Rising60(s) =>
            /\ indicators[s].ma5 >= indicators[s].ma10
            /\ indicators[s].ma10 >= indicators[s].ma20
            /\ indicators[s].ma20 >= indicators[s].ma60
            /\ AllFlagsTrue(indicators[s])

\* a rising series of 60 bars went through the engine
C17_Witness ==
    /\ Rising60(1)
    /\ NumBars(1) = 60
    /\ indicators[1].ma5 > indicators[1].ma60

Flat60(s) ==
    /\ variant = "Analysis"
    /\ Computed(s)
    /\ NumBars(s) = 60
    /\ \A i \in 1..60 : ClosesOf(s)[i] = Num(1000) /\ VolumesOf(s)[i] = Num(1000)

\* C18: 60 bars of close 10.0 and volume 1000 give MA5 = MA10 = MA20 = MA60
\* = 10.0, volume_ratio = 1.0, RSI = 50 and both Bollinger bands at 10.0.
C18_FlatSeries ==
    \A s \in Symbols :
        Flat60(s) =>
            /\ indicators[s].ma5 = 1000 /\ indicators[s].ma10 = 1000
            /\ indicators[s].ma20 = 1000 /\ indicators[s].ma60 = 1000
            /\ indicators[s].volume_ratio = 100
            /\ indicators[s].rsi = 5000
            /\ indicators[s].bb_upper = 1000 /\ indicators[s].bb_lower = 1000

C18_Witness == Flat60(1) /\ indicators[1].vma5 = 1000

\* ========================================================================
\* The factor source on its own: Database.get_factor_158
\* ========================================================================
FactorInit ==
    /\ variant = "Analysis"
    /\ mode = "factor"
    /\ pc = [s \in Symbols |-> IF s = 1 THEN "call" ELSE "unused"]
    /\ \E cs \in Requests, t \in FactorTables :
          history_data = [s \in Symbols |-> [stock_codes |-> cs, table |-> t]]
    /\ indicators = [s \in Symbols |-> EmptyDict]
    /\ factor_158 = [s \in Symbols |-> EmptyDict]
    /\ Idle

\* database.get_factor_158(stock_codes), called twice on the same table; the
\* query of either call may fail
CallGetFactor158(s) ==
    /\ pc[s] \in {"call", "recall"}
    /\ \E fails \in BOOLEAN :
          /\ factor_158' = [factor_158 EXCEPT ![s] =
                               GetFactor158(history_data[s].stock_codes,
                                            history_data[s].table, fails)]
          /\ raisedAt' = [raisedAt EXCEPT ![s] =
                             IF fails THEN "query" ELSE "none"]
    /\ pc' = [pc EXCEPT ![s] = IF pc[s] = "call" THEN "recall" ELSE "called"]
    /\ UNCHANGED <<variant, mode, history_data, current_data, indicators,
                   verdict, llmCalls, future, files, writing, writeLog>>
    /\ UNCHANGED orchVars

FactorNext == \E s \in Symbols : CallGetFactor158(s)

FactorSpec == FactorInit /\ [][FactorNext]_vars

\* the codes of the request of s
Requested(s) == Range(history_data[s].stock_codes)

\* the call that produced state-function q had no external data for code c:
\* no row, or the query failed
NoData(s, c, q) == c \notin DOMAIN history_data[s].table \/ q[s] = "query"

\* C19: get_factor_158 returns a value for every requested code; a code with
\* no row, or any code when the query failed, gets the fallback, which
\* depends on the code alone, so that two calls without external data for a
\* code return the same value for it.
C19_FactorNeverAbsent ==
    /\ [](\A s \in Symbols :
             (mode = "factor" /\ pc[s] \in {"recall", "called"}) =>
                 \A c \in Requested(s) :
                     /\ c \in DOMAIN factor_158[s]
                     /\ NoData(s, c, raisedAt) =>
                            factor_158[s][c] = Md5Mod1000(c)
                     /\ ~NoData(s, c, raisedAt) =>
                            factor_158[s][c] = history_data[s].table[c])
    /\ [][\A s \in Symbols :
             (mode = "factor" /\ pc[s] = "recall" /\ pc'[s] = "called") =>
                 \A c \in Requested(s) :
                     (NoData(s, c, raisedAt) /\ NoData(s, c, raisedAt')) =>
                         factor_158'[s][c] = factor_158[s][c]]_vars

\* two calls done, the second with a failing query: a code without a row
\* and a code with one both carry their fallback
C19_Witness ==
    /\ mode = "factor"
    /\ pc[1] = "called"
    /\ raisedAt[1] = "query"
    /\ Requested(1) = {"601096", "600000"}
    /\ DOMAIN history_data[1].table = {"600000"}
    /\ factor_158[1]["601096"] = 73
    /\ factor_158[1]["600000"] = 490

\* C20: when get_real_time_data returned None the call of analysis_stock
\* still ends with the record of the symbol (current price 0), whether the
\* gate rejected the symbol or accepted it.
C20_AbsentQuoteStillRecord ==
    \A s \in Symbols :
        (/\ variant = "Analysis"
         /\ mode \in {"batch", "single"}
         /\ current_data[s] = "absent"
         /\ verdict[s] # "none"
         /\ pc[s] \in Finished
         /\ raisedAt[s] \in {"none", "prompt"}) =>
            /\ future[s].kind = "record"
            /\ Get(future[s].rec, "current_price", -1) = 0

\* ========================================================================
\* The life of a symbol in a batch
\* ========================================================================
Queued(s) == pc[s] = "queued"

Running(s) == pc[s] \in RunningStages

\* the call of s returned a record
Completed(s) == pc[s] \in Finished /\ future[s].kind = "record"

\* the call of s raised, or returned None
Failed(s) == pc[s] \in Finished /\ future[s].kind \in {"raised", "none"}

\* C21: in a batch every symbol goes Queued -> Running -> Completed or
\* Failed: all are submitted by the one submit step and none is queued again,
\* a call starts running only from the queue, a finished call is either
\* Completed or Failed and stays as it is, and the results buffer only ever
\* grows by the record of a Completed symbol, so that every record in it
\* belongs to a Completed symbol.
C21_SymbolStateMachine ==
    /\ [](mode = "batch" =>
             \A s \in Symbols :
                /\ opc # "start" => pc[s] # "unsubmitted"
                /\ pc[s] \in {"unsubmitted", "queued"} \cup RunningStages
                                \cup Finished
                /\ pc[s] \in Finished => (Completed(s) <=> ~Failed(s))
                /\ pc[s] \notin Finished => future[s].kind = "pending"
                /\ Failed(s) => ~InBuffer(s))
    /\ [](mode = "batch" =>
             \A i \in 1..Len(valid_results) :
                \E s \in Symbols : Completed(s) /\ valid_results[i] = RecordOf(s))
    /\ [][mode = "batch" =>
             \A s \in Symbols :
                /\ (pc'[s] = "queued" /\ pc[s] # "queued") =>
                       pc[s] = "unsubmitted"
                /\ pc[s] # "unsubmitted" => pc'[s] # "unsubmitted"
                /\ (Running(s)' /\ ~Running(s)) => Queued(s)
                /\ Running(s) => (Running(s)' \/ pc'[s] \in Finished)
                /\ pc[s] \in Finished =>
                       (pc'[s] = pc[s] /\ future'[s] = future[s])]_vars
    /\ [][(mode = "batch" /\ Len(valid_results') > Len(valid_results)) =>
             \E s \in Symbols :
                /\ Completed(s)
                /\ valid_results' = Append(valid_results, RecordOf(s))]_vars

\* a batch in which one symbol failed and the other completed and was
\* consumed: only the second is in the buffer
C21_Witness ==
    /\ mode = "batch"
    /\ consumed = Symbols
    /\ Failed(1)
    /\ Completed(2)
    /\ InBuffer(2)
    /\ Len(valid_results) = 1

\* ========================================================================
\* The order of the steps of one pipeline call
\* ========================================================================
\* the step a call may take next: the order of the statements of
\* analysis_stock (the stock's info and its quote are fetched around the
\* history, the record is assembled by the step that gets the answer)
StepOrder ==
    {<<"info", "history">>, <<"history", "quote">>, <<"quote", "indicators">>,
     <<"indicators", "factor">>, <<"factor", "gate">>, <<"gate", "prompt">>,
     <<"prompt", "llm">>, <<"gate", "save">>, <<"llm", "save">>,
     <<"save", "saving">>}

\* a step of the call of s
Steps(s) == pc'[s] # pc[s] /\ Running(s)

\* C22: a running call takes its steps in the order history fetch,
\* normalization and indicator computation, factor fetch, gate, then the
\* default record or the analysis and the assembly of its record: each step
\* is the successor of the one before (or ends the call), and the gate
\* decides on the snapshot of the history fetched by this call and on the
\* factor fetched by this call.
C22_StepsInOrder ==
    [][\A s \in Symbols :
          /\ Steps(s) => (pc'[s] \in Finished \/ <<pc[s], pc'[s]>> \in StepOrder)
          /\ (Steps(s) /\ pc[s] = "gate" /\ verdict'[s] # "none") =>
                /\ indicators[s] = CalcIndicators(variant, history_data[s])
                /\ verdict'[s] = IF IsPromising(variant, indicators[s],
                                                factor_158[s])
                                 THEN "accept" ELSE "reject"]_vars

\* ========================================================================
\* Progress of a batch
\* ========================================================================
\* the fields of a record that batch_analysis reads (the code for its log,
\* the confidence for the sort, the recommendation for the buy subset)
ReadByLoop == {"stock_code", "recommendation", "confidence"}

\* a record as far as batch_analysis reads it
Seen(rec) == [k \in DOMAIN rec \cap ReadByLoop |-> rec[k]]

\* what a pipeline call can leave to the loop.  A record is the default
\* record or the record assembled from an answer (the prompt needs a
\* quote); None comes from a caught failure of the analysis or, in
\* Analysis2560, from an empty snapshot; an exception comes from a step
\* outside the try block
PipelineOutcomes(v, s) ==
    LET fs == IF v = "Analysis2560" THEN {0} ELSE Factors
    IN  { [kind |-> "record", rec |-> Seen(DefaultRecord(v, s, q, f))] :
            q \in {"present", "absent"}, f \in fs }
        \cup
        { [kind |-> "record",
           rec |-> Seen(AssembleRecord(v, s, "present", f, resp))] :
            f \in fs, resp \in LLMResponses(s, "present") }
        \cup { [kind |-> "none", rec |-> EmptyDict],
               [kind |-> "raised", rec |-> EmptyDict] }

\* the outcome of the finished call of s
OutcomeOf(s) == [kind |-> future[s].kind, rec |-> Seen(future[s].rec)]

\* every call that finishes in a batch of Spec leaves one of these outcomes
OutcomesCover ==
    mode = "batch" =>
        \A s \in Symbols :
            pc[s] \in Finished => OutcomeOf(s) \in PipelineOutcomes(variant, s)

\* the whole call analysis_stock(code) / run(code) of a pool thread taken as
\* one step: it ends with one of its outcomes
RunPipeline(s) ==
    /\ pc[s] = "info"
    /\ \E o \in PipelineOutcomes(variant, s) :
          /\ pc' = [pc EXCEPT ![s] = IF o.kind = "raised" THEN "raised"
                                     ELSE "returned"]
          /\ future' = [future EXCEPT ![s] = o]
          /\ raisedAt' = [raisedAt EXCEPT ![s] =
                             IF o.kind = "record" THEN "none" ELSE "info"]
    /\ UNCHANGED <<variant, mode, history_data, current_data, indicators,
                   factor_158, verdict, llmCalls, files, writing, writeLog>>
    /\ UNCHANGED orchVars

\* a batch, its pipeline calls taken as single steps
PoolInit == Init /\ mode = "batch"

PoolNext ==
    \/ Submit
    \/ \E s \in Symbols : WorkerStart(s)
    \/ \E s \in Symbols : RunPipeline(s)
    \/ \E s \in Symbols : TakeCompleted(s)
    \/ PersistBegin
    \/ PersistEnd
    \/ Rank
    \/ RankEnd
    \/ Select
    \/ SelectEnd

\* every call to a collaborator returns or raises, so a started pipeline
\* call ends, and every thread that can take a step is scheduled in the end
FairSpec == PoolInit /\ [][PoolNext]_vars /\ WF_vars(PoolNext)

\* batch_analysis is over: it returned, or the ranker's own write or the
\* write of the buy subset raised
BatchOver == opc \in {"done", "raised"}

Delta3(s, w) ==
    LET c == ClosesOf(s)
        n == NumBars(s)
    IN  (c[n][1] + c[n - 1][1] + c[n - 2][1])
        - (c[n - w][1] + c[n - w - 1][1] + c[n - w - 2][1])

SignLabel(d) == IF d > 0 THEN "up" ELSE IF d < 0 THEN "down" ELSE "flat"

\* C24: for a series of at least 63 bars of numeric closes the 2560
\* snapshot labels MA25 and MA60 by the sign of (value at the last bar -
\* value 3 bars earlier): up if positive, down if negative, flat if zero.
C24_TrendIsSignOfDelta ==
    (mode = "indicators" /\ variant = "Analysis2560" /\ Computed(1)
       /\ NumBars(1) >= 63 /\ FiniteCloses(1)) =>
        /\ indicators[1].ma25_trend = SignLabel(Delta3(1, 25))
        /\ indicators[1].ma60_trend = SignLabel(Delta3(1, 60))

\* a series of 63 bars or more whose two averages move in different ways
C24_Witness ==
    /\ mode = "indicators" /\ variant = "Analysis2560" /\ Computed(1)
    /\ NumBars(1) >= 63 /\ FiniteCloses(1)
    /\ indicators[1].ma25_trend = "down"
    /\ indicators[1].ma60_trend = "up"

\* C28: with 60, 61 or 62 bars the 2560 snapshot has its MA60 (for numeric
\* closes) but no MA60 of 3 bars earlier: ma60_trend is flat, never down,
\* while ma25_trend is still the sign of its own delta; so the gate's
\* MA60-trend rule rejects no snapshot of fewer than 63 bars, and such a
\* snapshot is rejected by the price rule or not at all.
C28_FlatTrendUnder63Bars ==
    (mode = "indicators" /\ variant = "Analysis2560" /\ Computed(1)
       /\ NumBars(1) < 63 /\ DOMAIN indicators[1] # {}) =>
        /\ NumBars(1) \in 60..62
        /\ indicators[1].ma60_trend = "flat"
        /\ FiniteCloses(1) =>
              /\ "is_above_ma60" \in DOMAIN indicators[1]
              /\ MeanOrZero(indicators[1].ma60, ClosesOf(1), 60)
              /\ indicators[1].ma60 > 0
              /\ indicators[1].ma25_trend = SignLabel(Delta3(1, 25))
        /\ IsPromising2560(indicators[1]) <=>
              ~(indicators[1].ma60 > 0
                  /\ 10 * indicators[1].current_price < 9 * indicators[1].ma60)

\* 62 falling bars: MA25 is labelled down, MA60 flat, and the gate accepts
C28_Witness ==
    /\ mode = "indicators" /\ variant = "Analysis2560" /\ Computed(1)
    /\ NumBars(1) = 62 /\ FiniteCloses(1)
    /\ indicators[1].ma25_trend = "down"
    /\ indicators[1].ma60_trend = "flat"
    /\ indicators[1].current_price < indicators[1].ma60
    /\ IsPromising2560(indicators[1])

\* ========================================================================
\* The two batch loops side by side
\* ========================================================================
\* completions fed to the loops
MaxCompletions == 3

\* what future.result() gives for the k-th completion: a record, None, or an
\* exception
Completions(k) ==
    { [kind |-> "record",
       rec |-> [stock_code |-> k, recommendation |-> Buy, confidence |-> 90]],
      [kind |-> "record",
       rec |-> [stock_code |-> k, recommendation |-> Watch,
                confidence |-> DefaultConfidence]],
      [kind |-> "none", rec |-> EmptyDict],
      [kind |-> "raised", rec |-> EmptyDict] }

\* one turn of the loop of batch_analysis of v on the buffer results: the
\* buffer afterwards and the is_first it computed.  Analysis computes
\* is_first, persists, then appends; Analysis2560 appends, computes is_first,
\* then persists; a raising persist lands in the except clause of the loop
LoopBody(v, results, first, completion, persistOk) ==
    IF completion.kind # "record"
    THEN [valid_results |-> results, is_first |-> first]
    ELSE IF v = "Analysis"
         THEN [valid_results |-> IF persistOk
                                 THEN Append(results, completion.rec)
                                 ELSE results,
               is_first |-> IsFirst(v, results)]
         ELSE [valid_results |-> Append(results, completion.rec),
               is_first |-> IsFirst(v, Append(results, completion.rec))]

\* both loops before their first completion; consumed counts the
\* completions by their numbers
LoopInit ==
    /\ variant = "Analysis"
    /\ mode = "loops"
    /\ pc = [s \in Symbols |-> "unused"]
    /\ history_data = [s \in Symbols |-> NoHistory]
    /\ indicators = [s \in Symbols |-> EmptyDict]
    /\ factor_158 = [s \in Symbols |-> 0]
    /\ verdict = [s \in Symbols |-> "none"]
    /\ llmCalls = [s \in Symbols |-> 0]
    /\ future = [s \in Symbols |-> Pending]
    /\ raisedAt = [s \in Symbols |-> "none"]
    /\ current_data = [s \in Symbols |-> "unset"]
    /\ opc = "loop"
    /\ cur = 0
    /\ is_first = [v \in BatchVariants |-> FALSE]
    /\ consumed = {}
    /\ valid_results = [v \in BatchVariants |-> <<>>]
    /\ buy_stocks = <<>>
    /\ files = [batch |-> NoFile, selected |-> NoFile, single |-> NoFile]
    /\ writing = {}
    /\ writeLog = <<>>
    /\ persistReturned = {}

\* the same completion and the same outcome of its persist, given to both
FeedBoth ==
    /\ Cardinality(consumed) < MaxCompletions
    /\ LET k == Cardinality(consumed) + 1
       IN \E c \in Completions(k), persistOk \in BOOLEAN :
             LET after == [v \in BatchVariants |->
                             LoopBody(v, valid_results[v], is_first[v], c,
                                      persistOk)]
             IN /\ valid_results' = [v \in BatchVariants |->
                                        after[v].valid_results]
                /\ is_first' = [v \in BatchVariants |-> after[v].is_first]
                /\ persistReturned' =
                      IF c.kind = "record" /\ persistOk
                      THEN persistReturned \cup {k} ELSE persistReturned
                /\ cur' = k
                /\ consumed' = consumed \cup {k}
    /\ UNCHANGED <<variant, mode, opc, buy_stocks, files, writing, writeLog>>
    /\ UNCHANGED workerVars

LoopNext == FeedBoth

LoopSpec == LoopInit /\ [][LoopNext]_vars

\* C25: fed the same completions and the same persist outcomes, the loops
\* of Analysis.batch_analysis and Analysis2560.batch_analysis decide the
\* same is_first for each record and hold the same buffer after each turn.
C25_LoopsAgree ==
    mode = "loops" =>
        /\ valid_results["Analysis"] = valid_results["Analysis2560"]
        /\ is_first["Analysis"] = is_first["Analysis2560"]

\* ========================================================================
\* The gates compared
\* ========================================================================
\* the snapshot of s with both the price, which AnalysisFlow's gate reads,
\* and the flag price > MA5, which Analysis's gate reads
WithPriceAndFlag(s) ==
    [current_price |-> PriceOf(s),
     is_above_ma5 |-> PriceOf(s) > indicators[s].ma5]
    @@ indicators[s]

\* C26: on a snapshot whose flag is_above_ma5 is price > MA5, and for every
\* factor score, Analysis._is_promising and AnalysisFlow._is_promising give
\* the same answer, the one the gate under test gave.
C26_ShortGatesAgree ==
    \A s \in Symbols :
        (variant \in ShortVariants /\ Answered(s)
           /\ DOMAIN indicators[s] # {}) =>
            /\ IsPromisingShort(WithPriceAndFlag(s), factor_158[s])
                  = IsPromisingFlow(WithPriceAndFlag(s), factor_158[s])
            /\ (verdict[s] = "accept")
                  = IsPromisingFlow(WithPriceAndFlag(s), factor_158[s])

\* the 2560 gate as its first two rules alone decide
FirstTwoRules2560(ind) ==
    /\ DOMAIN ind # {}
    /\ Get(ind, "ma60_trend", "none") # "down"
    /\ ~(Get(ind, "ma60", 0) > 0
           /\ 10 * Get(ind, "current_price", 0) < 9 * Get(ind, "ma60", 0))

\* C27: on every snapshot the 2560 gate answers as its first two rules
\* alone would: whatever its third rule (both trends down) would reject,
\* the MA60-trend rule has rejected before.
C27_ThirdRuleRedundant ==
    \A s \in Symbols :
        (variant = "Analysis2560" /\ Answered(s)) =>
            /\ (verdict[s] = "accept") = FirstTwoRules2560(indicators[s])
            /\ (/\ Get(indicators[s], "ma25_trend", "none") = "down"
                /\ Get(indicators[s], "ma60_trend", "none") = "down")
                  => verdict[s] = "reject"

\* a snapshot with both trends down and the price above MA60: rejected
C27_Witness ==
    /\ variant = "Analysis2560"
    /\ Answered(1)
    /\ DOMAIN indicators[1] # {}
    /\ indicators[1].ma25_trend = "down"
    /\ indicators[1].ma60_trend = "down"
    /\ 10 * indicators[1].current_price >= 9 * indicators[1].ma60
    /\ verdict[1] = "reject"

\* ========================================================================
\* The buy subset and the gate
\* ========================================================================
\* C29: in every state of a batch each record of the buy subset, and each
\* row of the selected file, belongs to a symbol that the gate accepted and
\* for which the analysis collaborator was invoked; the record of a symbol
\* the gate rejected carries no buy recommendation and is in neither.
C29_BuyOnlyAfterAnalysis ==
    mode = "batch" =>
        /\ \A i \in 1..Len(buy_stocks) :
              \E s \in Symbols :
                 /\ buy_stocks[i] = RecordOf(s)
                 /\ verdict[s] = "accept"
                 /\ llmCalls[s] >= 1
        /\ \A k \in 1..Len(files.selected.rows) :
              \E s \in Symbols :
                 /\ files.selected.rows[k] = Row(variant, RecordOf(s))
                 /\ verdict[s] = "accept"
                 /\ llmCalls[s] >= 1
        /\ \A s \in Symbols :
              (verdict[s] = "reject" /\ Completed(s)) =>
                 /\ ~IsBuy(RecordOf(s))
                 /\ \A i \in 1..Len(buy_stocks) : buy_stocks[i] # RecordOf(s)

\* a batch that returned with both records in its results, the rejected
\* symbol's and the analysed one's, and only the second in the buy subset
C29_Witness ==
    /\ mode = "batch"
    /\ opc = "done"
    /\ verdict[1] = "reject"
    /\ InBuffer(1)
    /\ verdict[2] = "accept"
    /\ Len(valid_results) = 2
    /\ buy_stocks = <<RecordOf(2)>>
    /\ files.selected.exists

\* ========================================================================
\* The fallback factor and the gate
\* ========================================================================
\* C30: the factor that get_factor_158 substitutes for a symbol without
\* external data lies in [0, 9.99]; on such a factor the short-horizon gate
\* never rejects by its factor rule: a rejection comes with an empty
\* snapshot or with the bearish alignment (MA5 < MA20 < MA60, price not
\* above MA5, negative histogram).
C30_FallbackNeverTripsFactorRule ==
    \A s \in Symbols :
        (mode = "gate" /\ variant \in ShortVariants /\ Answered(s)
           /\ factor_158[s] \in FallbackFactors) =>
            /\ factor_158[s] >= 0
            /\ factor_158[s] <= 999
            /\ verdict[s] = "reject" =>
                  \/ DOMAIN indicators[s] = {}
                  \/ /\ indicators[s].ma5 < indicators[s].ma20
                     /\ indicators[s].ma20 < indicators[s].ma60
                     /\ PriceOf(s) <= indicators[s].ma5
                     /\ indicators[s].macd_hist < 0

\* the fallback 0.73 of code 601096 on a bullish snapshot: accepted
C30_Witness ==
    /\ mode = "gate"
    /\ variant \in ShortVariants
    /\ Answered(1)
    /\ factor_158[1] = 73
    /\ DOMAIN indicators[1] # {}
    /\ indicators[1].ma5 > indicators[1].ma20
    /\ verdict[1] = "accept"

====
